---- MODULE Spec2Model ----
(***************************************************************************)
(* Model of Acts::DD4hepLayerBuilder (Plugins/DD4hepPlugin/src/             *)
(* DD4hepLayerBuilder.cpp): the three region operations negativeLayers,    *)
(* centralLayers and positiveLayers, the recursive collector of sensitive  *)
(* surfaces, the sensitive-surface factory and the transform converter.    *)
(*                                                                         *)
(* Lengths are integers.  Native (DD4hep/TGeo) lengths are in cm and are   *)
(* multiplied by units::_cm on the way in; every native length and every   *)
(* surface extent drawn below is even, so that "* 0.5" is exact.           *)
(***************************************************************************)
EXTENDS Integers, Sequences, FiniteSets, TLC

\* ------------------------------------------------------------------ bounds
\* longest node list handed to a region
MaxNodes == 2
\* most descendants below a layer node in the trees of TreeSpec
MaxDesc == 3

\* ------------------------------------------------------- program constants
\* units::_cm: the length-unit factor (native cm -> internal mm)
cm == 10
\* std::numeric_limits<double>::max(), the extent of an empty ProtoLayer
DBL_MAX == 1000

Regions == {"negative", "central", "positive"}

Abs(x) == IF x < 0 THEN -x ELSE x
\* x * 0.5 (exact on the even lengths of this model)
Half(x) == IF x >= 0 THEN x \div 2 ELSE -((-x) \div 2)

RECURSIVE SeqMin(_)
SeqMin(s) == IF Len(s) = 1 THEN s[1]
             ELSE LET m == SeqMin(Tail(s)) IN IF s[1] < m THEN s[1] ELSE m
RECURSIVE SeqMax(_)
SeqMax(s) == IF Len(s) = 1 THEN s[1]
             ELSE LET m == SeqMax(Tail(s)) IN IF s[1] > m THEN s[1] ELSE m

\* ------------------------------------------------------ the native geometry
\* A tree of detector elements below a layer node.  The layer node is 0, its
\* descendants are 1..n; parent[i] < i, and the children of a node are
\* iterated in ascending key order (dd4hep keeps them in a std::map).
\*   sens[i]  DetElement::volume().isSensitive()
\*   ext[i]   whether the lookup of the IActsExtension succeeds
children(t, i) == { j \in 1..t.n : t.parent[j] = i }

\* the children of i as the ordered sequence the range-for visits
RECURSIVE SetToSeq(_)
SetToSeq(S) == IF S = {} THEN <<>>
               ELSE LET m == CHOOSE x \in S : \A y \in S : x <= y
                    IN <<m>> \o SetToSeq(S \ {m})
childSeq(t, i) == SetToSeq(children(t, i))

\* the global extent of the surface of descendant i (set by its placement)
SurfaceExtent(i) ==
  CASE i = 1 -> [minR |-> 20, maxR |-> 40, minZ |-> -30, maxZ |-> -10]
    [] i = 2 -> [minR |-> 10, maxR |-> 30, minZ |-> -20, maxZ |-> 60]
    [] OTHER -> [minR |-> 30, maxR |-> 50, minZ |-> 20, maxZ |-> 40]

\* the null pointer
nullptr == [null |-> TRUE]

\* what the IActsExtension of element i hands out for its surface
ExtensionOf(i) == [material |-> [surfaceMaterial |-> i],
                   digitizationModule |-> [digitizationModule |-> i]]

\* convertTransform reading the rotation matrix column by column
convertTransformTransposed(tGeoTrans) ==
  LET rotation    == tGeoTrans.rot
      translation == tGeoTrans.trans
  IN [rotation    |-> << <<rotation[1], rotation[2], rotation[3]>>,
                         <<rotation[4], rotation[5], rotation[6]>>,
                         <<rotation[7], rotation[8], rotation[9]>> >>,
      translation |-> <<translation[1] * cm,
                        translation[2] * cm,
                        translation[3] * cm>>]

\* --------------------------------------------------------- convertTransform
\* The native matrix is row-major rot[1..9] and translation t[1..3]; the
\* Transform3D is built from three column vectors and the scaled translation.
\* rotation is kept as its three columns, translation as a vector.
convertTransform(tGeoTrans) ==
  LET rotation    == tGeoTrans.rot
      translation == tGeoTrans.trans
  IN [rotation    |-> << <<rotation[1], rotation[4], rotation[7]>>,
                         <<rotation[2], rotation[5], rotation[8]>>,
                         <<rotation[3], rotation[6], rotation[9]>> >>,
      translation |-> <<translation[1] * cm,
                        translation[2] * cm,
                        translation[3] * cm>>]

\* transform->rotation().col(c), c counted from 0 as in the source
col(transform, c) == transform.rotation[c + 1]
\* v.z()
z(v) == v[3]
\* a * k and a + b, a - b on vectors
Scale(v, k) == <<v[1] * k, v[2] * k, v[3] * k>>
Plus(a, b)  == <<a[1] + b[1], a[2] + b[2], a[3] + b[3]>>
Minus(a, b) == <<a[1] - b[1], a[2] - b[2], a[3] - b[3]>>

\* --------------------------------------------------- createSensitiveSurface
\* The default of the axes parameter in the declaration.
DefaultAxes == "XYZ"

\* createSensitiveSurface handing on the material of the extension but
\* not its digitization module
createSensitiveSurfaceNoDigi(detElement, i, isDisc, axes) ==
  [detElement |-> i,
   axes       |-> axes,
   scalor     |-> cm,
   isDisc     |-> isDisc,
   material   |-> IF detElement.ext[i] THEN ExtensionOf(i).material ELSE nullptr,
   digiModule |-> nullptr,
   extent     |-> SurfaceExtent(i)]

\* The surface of a new DD4hepDetElement for element i of detElement.
createSensitiveSurface(detElement, i, isDisc, axes) ==
  LET hasExt       == detElement.ext[i]
      material     == IF hasExt THEN ExtensionOf(i).material ELSE nullptr
      digiModule   == IF hasExt THEN ExtensionOf(i).digitizationModule ELSE nullptr
  IN [detElement |-> i,
      axes       |-> axes,
      scalor     |-> cm,
      isDisc     |-> isDisc,
      material   |-> material,
      digiModule |-> digiModule,
      extent     |-> SurfaceExtent(i)]

\* --------------------------------------------------------- collectSensitive
\* collectSensitive(detElement = i, surfaces, axes): returns surfaces with the
\* surfaces of the sensitive descendants of i appended.  collectChildren is
\* its range-for over the children; collectChildrenStopAtSensitive is that
\* loop with the recursion moved into an else branch.
RECURSIVE collectSensitive(_, _, _, _)
RECURSIVE collectChildren(_, _, _, _)
collectChildrenStopAtSensitive(detElement, kids, surfaces, axes) ==
  IF kids = <<>> THEN surfaces
  ELSE LET childDetElement == Head(kids)
           below == IF detElement.sens[childDetElement]
                    THEN Append(surfaces,
                           createSensitiveSurface(detElement, childDetElement,
                                                  FALSE, axes))
                    ELSE collectSensitive(detElement, childDetElement,
                                          surfaces, axes)
       IN collectChildren(detElement, Tail(kids), below, axes)
collectChildren(detElement, kids, surfaces, axes) ==
  IF kids = <<>> THEN surfaces
  ELSE LET childDetElement == Head(kids)
           pushed == IF detElement.sens[childDetElement]
                     THEN Append(surfaces,
                            createSensitiveSurface(detElement, childDetElement,
                                                   FALSE, axes))
                     ELSE surfaces
           below  == collectSensitive(detElement, childDetElement, pushed, axes)
       IN collectChildren(detElement, Tail(kids), below, axes)
collectSensitive(detElement, i, surfaces, axes) ==
  LET kids == childSeq(detElement, i)
  IN IF kids # <<>> THEN collectChildren(detElement, kids, surfaces, axes)
     ELSE surfaces

\* ---------------------------------------------------------------- ProtoLayer
\* ProtoLayer(surfaces): the extent of the surfaces; of an empty list the
\* inverted extent (max, lowest) the measurement starts from; no envelope.
ProtoLayer(surfaces) ==
  LET ext(f) == [k \in 1..Len(surfaces) |-> surfaces[k].extent[f]]
  IN IF surfaces = <<>>
     THEN [minR |-> DBL_MAX, maxR |-> -DBL_MAX,
           minZ |-> DBL_MAX, maxZ |-> -DBL_MAX,
           envR |-> <<0, 0>>, envZ |-> <<0, 0>>]
     ELSE [minR |-> SeqMin(ext("minR")), maxR |-> SeqMax(ext("maxR")),
           minZ |-> SeqMin(ext("minZ")), maxZ |-> SeqMax(ext("maxZ")),
           envR |-> <<0, 0>>, envZ |-> <<0, 0>>]

\* boost::iequals(a, b) on names kept as sequences of one-letter strings
ToLower(c) ==
  CASE c = "V" -> "v" [] c = "A" -> "a" [] c = "C" -> "c"
    [] c = "U" -> "u" [] c = "M" -> "m" [] c = "I" -> "i" [] c = "R" -> "r"
    [] OTHER -> c
iequals(a, b) ==
  /\ Len(a) = Len(b)
  /\ \A k \in 1..Len(a) : ToLower(a[k]) = ToLower(b[k])
Vacuum == <<"v", "a", "c", "u", "u", "m">>

\* ----------------------------------------------------------------- the inputs
\* Native shapes: no shape, a TGeoTubeSeg (rMin <= rMax, dz >= 0, in cm) or
\* another TGeoShape (a box).
NoShape == [kind |-> "none", rMin |-> 0, rMax |-> 0, dz |-> 0]
Box     == [kind |-> "box", rMin |-> 0, rMax |-> 0, dz |-> 0]
Tubes   == { [kind |-> "tube", rMin |-> 2, rMax |-> 6, dz |-> 4],
             [kind |-> "tube", rMin |-> 0, rMax |-> 4, dz |-> 8] }
Shapes  == {NoShape, Box} \cup Tubes

\* Native world transformations (row-major rotation, translation in cm):
\* the identity rotation, a half turn about x (the local z axis points to
\* -z) and a quarter turn about z, each with a translation.
Transforms ==
  { [rot |-> <<1, 0, 0,  0, 1, 0,  0, 0, 1>>,   trans |-> <<0, 0, 2>>],
    [rot |-> <<1, 0, 0,  0, -1, 0,  0, 0, -1>>, trans |-> <<0, 0, -4>>],
    [rot |-> <<0, -1, 0,  1, 0, 0,  0, 0, 1>>,  trans |-> <<2, 4, 0>>] }

\* The IActsExtension of a layer node.
Extensions ==
  { [axes |-> "XZY", buildEnvelope |-> e[1], envelopeR |-> e[2],
     envelopeZ |-> e[3], hasSupportMaterial |-> m[1],
     layerMaterialPosition |-> m[2], materialBins |-> <<2, 4>>] :
     e \in {<<FALSE, 0, 0>>, <<TRUE, 2, 2>>, <<TRUE, 2, 4>>},
     m \in {<<FALSE, "inner">>, <<TRUE, "inner">>, <<TRUE, "central">>,
            <<TRUE, "outer">>} }

\* Names of bulk materials.
MaterialNames == { <<"v", "a", "c", "u", "u", "m">>,
                   <<"V", "a", "c", "u", "u", "M">>,
                   <<"A", "i", "r">> }

\* All trees with n descendants: every parent function with parent[i] < i,
\* every set of sensitive descendants; the extension lookup fails on the
\* descendants in noExt.
TreesOf(n, noExt) ==
  { [n |-> n, parent |-> p,
     sens |-> [i \in 0..n |-> i \in S],
     ext  |-> [i \in 0..n |-> i \notin noExt]] :
     p \in { f \in [1..n -> 0..n] : \A i \in 1..n : f[i] < i },
     S \in SUBSET (0..n) }

\* The trees of the geometry nodes: no descendant; a sensitive descendant
\* with a sensitive child; a passive descendant with a sensitive child next
\* to a sensitive descendant; with the layer node itself sensitive or not.
LayerTrees ==
  { t \in TreesOf(0, {}) \cup TreesOf(2, {2}) \cup TreesOf(3, {2}) :
      \/ t.n = 0
      \/ t.n = 2 /\ t.parent = <<0, 1>> /\ t.sens[1] /\ t.sens[2]
      \/ t.n = 3 /\ t.parent = <<0, 0, 1>> /\ ~t.sens[1] /\ t.sens[2] /\ t.sens[3] }

\* every tree up to MaxDesc descendants
AllTrees == UNION { TreesOf(n, {2}) : n \in 0..MaxDesc }

DetElement(name, t, shape, world, material, extension) ==
  [name |-> name, n |-> t.n, parent |-> t.parent, sens |-> t.sens, ext |-> t.ext,
   shape |-> shape, world |-> world, material |-> material,
   extension |-> extension]

\* Layer nodes varying in geometry, extension and material.
GeoNodes ==
  { DetElement("geo", t, s, w, m, x) :
      t \in LayerTrees, s \in Shapes, w \in Transforms, m \in MaterialNames,
      x \in Extensions }
\* Layer nodes varying in the tree below them.
TreeNodes ==
  { DetElement("tree", t, s, w, <<"A", "i", "r">>, x) :
      t \in AllTrees, s \in {CHOOSE tb \in Tubes : tb.rMin = 2},
      w \in {CHOOSE tr \in Transforms : tr.trans[3] = 2},
      x \in {xx \in Extensions : ~xx.hasSupportMaterial /\ xx.envelopeZ # 4} }
\* The nodes of the longer lists.
ListNodes ==
  { DetElement("list", t, s, w, <<"A", "i", "r">>, x) :
      t \in {tt \in LayerTrees : tt.n = 0 /\ ~tt.sens[0]},
      s \in {NoShape} \cup {tb \in Tubes : tb.rMin = 2},
      w \in {tr \in Transforms : tr.trans[3] # 0},
      x \in {xx \in Extensions : ~xx.hasSupportMaterial /\ ~xx.buildEnvelope} }

RECURSIVE SeqsUpTo(_, _)
SeqsUpTo(S, n) ==
  IF n = 0 THEN {<<>>}
  ELSE LET shorter == SeqsUpTo(S, n - 1)
       IN shorter \cup { Append(q, x) : q \in {qq \in shorter : Len(qq) = n - 1}, x \in S }

\* The configurations: one node in one region, or one list in all three.
Configs ==
  { [negativeLayers |-> IF r = "negative" THEN <<a>> ELSE <<>>,
     centralLayers  |-> IF r = "central" THEN <<a>> ELSE <<>>,
     positiveLayers |-> IF r = "positive" THEN <<a>> ELSE <<>>] :
       a \in GeoNodes \cup TreeNodes, r \in Regions }
  \cup
  { [negativeLayers |-> L, centralLayers |-> L, positiveLayers |-> L] :
       L \in SeqsUpTo(ListNodes, MaxNodes) }

\* The nodes of the calls that run side by side, in a ring: a passive tube
\* with support material above two sensitive elements, a sensitive node with
\* an envelope, a node whose shape is no tube, a node with no shape at all.
ConcNodes ==
  LET plain(a) == /\ a.world.trans[3] = 2
                  /\ a.material = <<"A", "i", "r">>
      bare(a)  == /\ plain(a) /\ a.n = 0 /\ ~a.sens[0]
                  /\ ~a.extension.buildEnvelope
                  /\ ~a.extension.hasSupportMaterial
  IN << CHOOSE a \in GeoNodes :
          /\ plain(a) /\ a.n = 2 /\ ~a.sens[0]
          /\ a.shape.kind = "tube" /\ a.shape.rMin = 2
          /\ ~a.extension.buildEnvelope
          /\ a.extension.hasSupportMaterial
          /\ a.extension.layerMaterialPosition = "central",
        CHOOSE a \in GeoNodes :
          /\ plain(a) /\ a.n = 0 /\ a.sens[0]
          /\ a.shape.kind = "tube" /\ a.shape.rMin = 2
          /\ a.extension.buildEnvelope /\ a.extension.envelopeZ = 4
          /\ ~a.extension.hasSupportMaterial,
        CHOOSE a \in GeoNodes : bare(a) /\ a.shape.kind = "box",
        CHOOSE a \in GeoNodes : bare(a) /\ a.shape.kind = "none" >>

\* the n nodes of the ring from its k-th on
Window(k, n) ==
  [i \in 1..n |-> ConcNodes[((k + i - 2) % Len(ConcNodes)) + 1]]

\* The configurations of the calls that run side by side: the three regions
\* are handed the same list, a stretch of the ring.
ConcConfigs ==
  { [negativeLayers |-> L, centralLayers |-> L, positiveLayers |-> L] :
       L \in { Window(k, n) : k \in 1..Len(ConcNodes), n \in 0..MaxNodes } }

\* ------------------------------------------------ the steps of the loop body
\* ShapeCheck looking at the shape before the envelope flag
ShapeCheckShapeFirst(detExtension, geoShape) ==
  IF geoShape.kind # "none" THEN "shape"
  ELSE IF detExtension.buildEnvelope THEN "envelope"
  ELSE "throw"

\* What the if / else-if / else on the envelope and the shape selects:
\* the envelope branch, the shape branch, or the throw.
ShapeCheck(detExtension, geoShape) ==
  IF detExtension.buildEnvelope THEN "envelope"
  ELSE IF geoShape.kind # "none" THEN "shape"
  ELSE "throw"

\* dynamic_cast<TGeoTubeSeg*>(geoShape)
dynamic_cast(geoShape) == IF geoShape.kind = "tube" THEN geoShape ELSE nullptr

\* EnvelopeOf with the longitudinal margin taken from the radial one
EnvelopeOfOneMargin(protoLayer, detExtension) ==
  [protoLayer EXCEPT
     !.envR = <<detExtension.envelopeR, detExtension.envelopeR>>,
     !.envZ = <<detExtension.envelopeR, detExtension.envelopeR>>]

\* pl.envR / pl.envZ set from the extension; the extent is left alone
EnvelopeOf(protoLayer, detExtension) ==
  [protoLayer EXCEPT
     !.envR = <<detExtension.envelopeR, detExtension.envelopeR>>,
     !.envZ = <<detExtension.envelopeZ, detExtension.envelopeZ>>]

\* the projected z of the two ends of the tube, before the swap
RawZ(trf, tb) ==
  [zMin |-> z(Minus(trf.translation, Scale(col(trf, 2), tb.dz * cm))),
   zMax |-> z(Plus(trf.translation, Scale(col(trf, 2), tb.dz * cm)))]

\* SwapZ without the swap
SwapZNever(raw) == raw

\* if (zMin > zMax) std::swap(zMin, zMax)
SwapZ(raw) ==
  IF raw.zMin > raw.zMax THEN [zMin |-> raw.zMax, zMax |-> raw.zMin] ELSE raw

\* the boundaries extracted from the tube: discs project the ends of the
\* tube on z and order them, the cylinder takes -dz and dz
ShapeExtent(r, trf, tb) ==
  IF r = "central"
  THEN [rMin |-> tb.rMin * cm, rMax |-> tb.rMax * cm,
        zMin |-> -(tb.dz * cm), zMax |-> tb.dz * cm]
  ELSE LET zz == SwapZ(RawZ(trf, tb))
       IN [rMin |-> tb.rMin * cm, rMax |-> tb.rMax * cm,
           zMin |-> zz.zMin, zMax |-> zz.zMax]

\* ShapeProtoLayer with the signed differences in place of std::abs
ShapeProtoLayerSigned(protoLayer, surfaces, e) ==
  IF surfaces = <<>>
  THEN [minR |-> e.rMin, maxR |-> e.rMax, minZ |-> e.zMin, maxZ |-> e.zMax,
        envR |-> <<0, 0>>, envZ |-> <<0, 0>>]
  ELSE [protoLayer EXCEPT
          !.envZ = <<e.zMin - protoLayer.minZ, e.zMax - protoLayer.maxZ>>,
          !.envR = <<e.rMin - protoLayer.minR, e.rMax - protoLayer.maxR>>]

\* the ProtoLayer after the shape branch
ShapeProtoLayer(protoLayer, surfaces, e) ==
  IF surfaces = <<>>
  THEN [minR |-> e.rMin, maxR |-> e.rMax, minZ |-> e.zMin, maxZ |-> e.zMax,
        envR |-> <<0, 0>>, envZ |-> <<0, 0>>]
  ELSE [protoLayer EXCEPT
          !.envZ = <<Abs(e.zMin - protoLayer.minZ), Abs(e.zMax - protoLayer.maxZ)>>,
          !.envR = <<Abs(e.rMin - protoLayer.minR), Abs(e.rMax - protoLayer.maxR)>>]

\* What a read through the null tube pointer can hand back when it does
\* not end the process: arbitrary radii and half-length.
GarbageTubes == { [kind |-> "garbage", rMin |-> 6, rMax |-> 2, dz |-> -4],
                  [kind |-> "garbage", rMin |-> 0, rMax |-> 0, dz |-> 0] }

\* double halfZ = (pl.minZ - pl.maxZ) * 0.5
halfZOf(protoLayer) == Half(protoLayer.minZ - protoLayer.maxZ)

\* the SurfaceMaterialProxy on its two-axis BinUtility
MaterialProxy(r, detExtension, protoLayer, trf) ==
  LET bins1 == detExtension.materialBins[1]
      bins2 == detExtension.materialBins[2]
      phi   == [bins |-> bins1, min |-> "-M_PI", max |-> "M_PI",
                opt |-> "closed", value |-> "binPhi"]
      second == IF r = "central"
                THEN [bins |-> bins2, min |-> -halfZOf(protoLayer),
                      max |-> halfZOf(protoLayer), opt |-> "open",
                      value |-> "binZ", transform |-> trf]
                ELSE [bins |-> bins2, min |-> protoLayer.minR,
                      max |-> protoLayer.maxR, opt |-> "open",
                      value |-> "binR", transform |-> trf]
  IN [binUtility |-> <<phi, second>>]

\* MaterialAt with the inner boundary marked whatever the position
MaterialAtInnerToo(layerPos, which, materialProxy) ==
  IF layerPos = which \/ which = "inner" THEN materialProxy ELSE nullptr

\* setAssociatedMaterial on the boundary the position names
MaterialAt(layerPos, which, materialProxy) ==
  IF layerPos = which THEN materialProxy ELSE nullptr

\* the order of the push_back calls on aSurfaces
ApproachOrder(r) ==
  IF r = "negative" THEN <<"inner", "outer", "central">>
  ELSE <<"inner", "central", "outer">>

\* layerThickness without the envelope in z
LayerThicknessNoEnvelope(protoLayer) ==
  Abs(protoLayer.minZ - protoLayer.maxZ)

\* layerThickness of a disc layer: the extent in z and the envelope on both
\* sides
LayerThickness(protoLayer) ==
  Abs(protoLayer.minZ - protoLayer.maxZ)
    + protoLayer.envZ[1] + protoLayer.envZ[2]

\* the three boundary surfaces and the approach descriptor owning them
ApproachSurfaces(r, detExtension, protoLayer, trf) ==
  LET materialProxy == MaterialProxy(r, detExtension, protoLayer, trf)
      layerPos == detExtension.layerMaterialPosition
      layerThickness == LayerThickness(protoLayer)
      p1 == Minus(trf.translation, Scale(col(trf, 2), Half(layerThickness)))
      p2 == Plus(trf.translation, Scale(col(trf, 2), Half(layerThickness)))
      innerPos == IF z(p1) > z(p2) THEN p2 ELSE p1
      outerPos == IF z(p1) > z(p2) THEN p1 ELSE p2
      disc(which, pos) ==
        [name |-> which, type |-> "disc",
         transform |-> [rotation |-> trf.rotation, translation |-> pos],
         rMin |-> protoLayer.minR, rMax |-> protoLayer.maxR,
         material |-> MaterialAt(layerPos, which, materialProxy)]
      cyl(which, radius) ==
        [name |-> which, type |-> "cylinder", transform |-> trf,
         radius |-> radius, halfZ |-> halfZOf(protoLayer),
         material |-> MaterialAt(layerPos, which, materialProxy)]
      made == IF r = "central"
              THEN [inner   |-> cyl("inner", protoLayer.minR),
                    outer   |-> cyl("outer", protoLayer.maxR),
                    central |-> cyl("central",
                                    Half(protoLayer.minR + protoLayer.maxR))]
              ELSE [inner   |-> disc("inner", innerPos),
                    outer   |-> disc("outer", outerPos),
                    central |-> disc("central", trf.translation)]
      order == ApproachOrder(r)
  IN [surfaces |-> [k \in 1..3 |-> made[order[k]]]]

\* ApproachDescriptorOf building the boundary surfaces for every node
ApproachDescriptorAlways(r, detExtension, protoLayer, trf) ==
  ApproachSurfaces(r, detExtension, protoLayer, trf)

\* the approach descriptor of the node: null unless support material is asked
ApproachDescriptorOf(r, detExtension, protoLayer, trf) ==
  IF detExtension.hasSupportMaterial
  THEN ApproachSurfaces(r, detExtension, protoLayer, trf)
  ELSE nullptr

\* what the construction of a layer may leave as the material of its surface
\* representation: nothing, or a material of its own
ConstructionMaterials ==
  {nullptr, [material |-> "construction", thickness |-> 0]}

\* DiscLayer::create / CylinderLayer::create on the one sensitive surface;
\* materialSet counts the setAssociatedMaterial calls on the new layer
DirectLayer(r, detElement, protoLayer, trf, ad, left) ==
  LET sensitiveSurf == createSensitiveSurface(detElement, 0, r # "central",
                                              DefaultAxes)
  IN IF r = "central"
     THEN [type |-> "cylinder", via |-> "create", transform |-> trf,
           bounds |-> [r |-> Half(protoLayer.minR + protoLayer.maxR),
                       halfZ |-> halfZOf(protoLayer)],
           surfaceArray |-> <<sensitiveSurf>>,
           thickness |-> Abs(protoLayer.maxR - protoLayer.minR),
           approachDescriptor |-> ad, layerType |-> "active",
           material |-> left, materialSet |-> 0]
     ELSE [type |-> "disc", via |-> "create", transform |-> trf,
           bounds |-> [rMin |-> protoLayer.minR, rMax |-> protoLayer.maxR],
           surfaceArray |-> <<sensitiveSurf>>,
           thickness |-> Abs(protoLayer.maxZ - protoLayer.minZ),
           approachDescriptor |-> ad, layerType |-> "active",
           material |-> left, materialSet |-> 0]

\* m_cfg.layerCreator->discLayer / cylinderLayer: the layer assembled from
\* the surfaces, the binning types, the ProtoLayer, the transform and the
\* approach descriptor it is handed
CreatorLayer(r, surfaces, protoLayer, trf, ad, left) ==
  [type |-> IF r = "central" THEN "cylinder" ELSE "disc",
   via |-> "layerCreator", transform |-> trf,
   binning |-> IF r = "central" THEN <<"bTypePhi", "bTypeZ">>
               ELSE <<"bTypeR", "bTypePhi">>,
   protoLayer |-> protoLayer,
   surfaceArray |-> surfaces,
   approachDescriptor |-> ad,
   material |-> left, materialSet |-> 0]

\* LayerOf handing every node to the layer creator
LayerOfCreatorOnly(r, detElement, surfaces, protoLayer, trf, ad, left) ==
  CreatorLayer(r, surfaces, protoLayer, trf, ad, left)

\* the layer of the node, by the path its sensitivity selects
LayerOf(r, detElement, surfaces, protoLayer, trf, ad, left) ==
  IF detElement.sens[0]
  THEN DirectLayer(r, detElement, protoLayer, trf, ad, left)
  ELSE CreatorLayer(r, surfaces, protoLayer, trf, ad, left)

\* the thickness given to the MaterialProperties
MaterialThickness(r, protoLayer) == Abs(protoLayer.maxR - protoLayer.minR)

\* surfMaterial: null for vacuum, else the homogeneous material of the node
SurfMaterial(r, detElement, protoLayer) ==
  IF ~iequals(detElement.material, Vacuum)
  THEN [material |-> detElement.material,
        thickness |-> MaterialThickness(r, protoLayer)]
  ELSE nullptr

\* --------------------------------------------------------------------- state
VARIABLES
  m_cfg,              \* the configuration (never written after construction)
  pc,                 \* per region call: where the call stands
  idx,                \* per region call: position of the range-for
  layers,             \* per region call: the local LayerVector
  result,             \* per region call: what the caller received
  layerSurfaces,      \* locals of the loop body, per region call
  transform,
  pl,
  tube,
  approachDescriptor,
  layer,
  errors,             \* per region call: number of ACTS_ERROR messages
  creatorCalls        \* per region call: the calls made on m_cfg.layerCreator

vars == <<m_cfg, pc, idx, layers, result, layerSurfaces, transform, pl, tube,
          approachDescriptor, layer, errors, creatorCalls>>

locals == <<layerSurfaces, transform, pl, tube, approachDescriptor, layer>>

\* m_cfg.negativeLayers, m_cfg.centralLayers, m_cfg.positiveLayers
nodesOf(r) ==
  CASE r = "negative" -> m_cfg.negativeLayers
    [] r = "central"  -> m_cfg.centralLayers
    [] r = "positive" -> m_cfg.positiveLayers
\* the detElement of the current iteration
detElementOf(r) == nodesOf(r)[idx[r]]

\* no value: a local out of scope, a result not delivered
none == [none |-> TRUE]

\* no call has been made yet
InitCalls ==
  /\ pc = [r \in Regions |-> "idle"]
  /\ idx = [r \in Regions |-> 0]
  /\ layers = [r \in Regions |-> <<>>]
  /\ result = [r \in Regions |-> none]
  /\ layerSurfaces = [r \in Regions |-> <<>>]
  /\ transform = [r \in Regions |-> none]
  /\ pl = [r \in Regions |-> none]
  /\ tube = [r \in Regions |-> none]
  /\ approachDescriptor = [r \in Regions |-> nullptr]
  /\ layer = [r \in Regions |-> nullptr]
  /\ errors = [r \in Regions |-> 0]
  /\ creatorCalls = [r \in Regions |-> <<>>]

Init ==
  /\ m_cfg \in Configs
  /\ InitCalls

\* the calls are made one after the other (single-threaded caller)
Running(r) == pc[r] \notin {"idle", "returned", "thrown", "crashed"}
NoneRunning == \A r \in Regions : ~Running(r)

\* the process lives until a read through a null pointer ends it
Alive == \A r \in Regions : pc[r] # "crashed"

\* negativeLayers() / centralLayers() / positiveLayers() is entered: the
\* LayerVector is empty; an empty node list goes straight to the return.
Call(r) ==
  /\ pc[r] = "idle"
  /\ NoneRunning
  /\ layers' = [layers EXCEPT ![r] = <<>>]
  /\ idx' = [idx EXCEPT ![r] = 1]
  /\ pc' = [pc EXCEPT ![r] = IF nodesOf(r) = <<>> THEN "return" ELSE "node"]
  /\ UNCHANGED <<m_cfg, creatorCalls, result, locals, errors>>

\* StartNode keeping the collected surfaces in one buffer all calls share
StartNodeSharedBuffer(r) ==
  /\ pc[r] = "node"
  /\ LET detElement   == detElementOf(r)
         detExtension == detElement.extension
         axes         == detExtension.axes
         surfaces     == collectSensitive(detElement, 0, <<>>, axes)
     IN /\ layerSurfaces' = [q \in Regions |-> surfaces]
        /\ transform' = [transform EXCEPT ![r] = convertTransform(detElement.world)]
        /\ pl' = [pl EXCEPT ![r] = ProtoLayer(surfaces)]
  /\ pc' = [pc EXCEPT ![r] = "envelope"]
  /\ UNCHANGED <<m_cfg, creatorCalls, idx, layers, result, tube,
                 approachDescriptor, layer, errors>>

\* The head of the loop body: the extension and its axes, collectSensitive,
\* convertTransform, the shape, the ProtoLayer of the collected surfaces.
StartNode(r) ==
  /\ pc[r] = "node"
  /\ LET detElement   == detElementOf(r)
         detExtension == detElement.extension
         axes         == detExtension.axes
         surfaces     == collectSensitive(detElement, 0, <<>>, axes)
     IN /\ layerSurfaces' = [layerSurfaces EXCEPT ![r] = surfaces]
        /\ transform' = [transform EXCEPT ![r] = convertTransform(detElement.world)]
        /\ pl' = [pl EXCEPT ![r] = ProtoLayer(surfaces)]
  /\ pc' = [pc EXCEPT ![r] = "envelope"]
  /\ UNCHANGED <<m_cfg, creatorCalls, idx, layers, result, tube, approachDescriptor, layer, errors>>

\* The envelope branch: the margins of the extension on both sides.
Envelope(r) ==
  /\ pc[r] = "envelope"
  /\ ShapeCheck(detElementOf(r).extension, detElementOf(r).shape) = "envelope"
  /\ pl' = [pl EXCEPT ![r] = EnvelopeOf(pl[r], detElementOf(r).extension)]
  /\ pc' = [pc EXCEPT ![r] = "approach"]
  /\ UNCHANGED <<m_cfg, creatorCalls, idx, layers, result, layerSurfaces, transform, tube,
                 approachDescriptor, layer, errors>>

\* The shape branch is entered: the cast, and the error message when the
\* shape is no tube segment.  The call goes on to read the tube either way.
CastShape(r) ==
  /\ pc[r] = "envelope"
  /\ ShapeCheck(detElementOf(r).extension, detElementOf(r).shape) = "shape"
  /\ tube' = [tube EXCEPT ![r] = dynamic_cast(detElementOf(r).shape)]
  /\ errors' = [errors EXCEPT ![r] =
                  IF dynamic_cast(detElementOf(r).shape) = nullptr THEN @ + 1 ELSE @]
  /\ pc' = [pc EXCEPT ![r] = "tube"]
  /\ UNCHANGED <<m_cfg, creatorCalls, idx, layers, result, layerSurfaces, transform, pl,
                 approachDescriptor, layer>>

\* Throw replaced by a skip of the node (the error swallowed, the loop going on)
ThrowSkipsNode(r) ==
  /\ pc[r] = "envelope"
  /\ ShapeCheck(detElementOf(r).extension, detElementOf(r).shape) = "throw"
  /\ idx' = [idx EXCEPT ![r] = @ + 1]
  /\ pc' = [pc EXCEPT ![r] = IF idx[r] < Len(nodesOf(r)) THEN "node" ELSE "return"]
  /\ layerSurfaces' = [layerSurfaces EXCEPT ![r] = <<>>]
  /\ transform' = [transform EXCEPT ![r] = none]
  /\ pl' = [pl EXCEPT ![r] = none]
  /\ UNCHANGED <<m_cfg, creatorCalls, layers, result, tube, approachDescriptor, layer, errors>>

\* Neither a shape nor an envelope: std::logic_error leaves the call; the
\* locals, the LayerVector among them, are destroyed; nothing is returned.
Throw(r) ==
  /\ pc[r] = "envelope"
  /\ ShapeCheck(detElementOf(r).extension, detElementOf(r).shape) = "throw"
  /\ pc' = [pc EXCEPT ![r] = "thrown"]
  /\ layers' = [layers EXCEPT ![r] = <<>>]
  /\ layerSurfaces' = [layerSurfaces EXCEPT ![r] = <<>>]
  /\ transform' = [transform EXCEPT ![r] = none]
  /\ pl' = [pl EXCEPT ![r] = none]
  /\ UNCHANGED <<m_cfg, creatorCalls, idx, result, tube, approachDescriptor, layer, errors>>

\* The radii and the half-length are read from the tube and the ProtoLayer
\* is set from them.
ReadTube(r) ==
  /\ pc[r] = "tube"
  /\ tube[r] # nullptr
  /\ pl' = [pl EXCEPT ![r] =
              ShapeProtoLayer(pl[r], layerSurfaces[r],
                              ShapeExtent(r, transform[r], tube[r]))]
  /\ pc' = [pc EXCEPT ![r] = "approach"]
  /\ UNCHANGED <<m_cfg, creatorCalls, idx, layers, result, layerSurfaces, transform, tube,
                 approachDescriptor, layer, errors>>

\* The same reads through the null pointer the failed cast left: undefined
\* behaviour.  The process dies, or the reads hand back arbitrary numbers
\* and the call goes on with them.
ReadNullTube(r) ==
  /\ pc[r] = "tube"
  /\ tube[r] = nullptr
  /\ \/ /\ pc' = [pc EXCEPT ![r] = "crashed"]
        /\ UNCHANGED pl
     \/ \E g \in GarbageTubes :
          /\ pl' = [pl EXCEPT ![r] =
                      ShapeProtoLayer(pl[r], layerSurfaces[r],
                                      ShapeExtent(r, transform[r], g))]
          /\ pc' = [pc EXCEPT ![r] = "approach"]
  /\ UNCHANGED <<m_cfg, creatorCalls, idx, layers, result, layerSurfaces, transform, tube,
                 approachDescriptor, layer, errors>>

\* The material proxy, the three boundary surfaces and the approach
\* descriptor, when the extension asks for support material.
Approach(r) ==
  /\ pc[r] = "approach"
  /\ approachDescriptor' = [approachDescriptor EXCEPT ![r] =
        ApproachDescriptorOf(r, detElementOf(r).extension, pl[r], transform[r])]
  /\ pc' = [pc EXCEPT ![r] = "build"]
  /\ UNCHANGED <<m_cfg, creatorCalls, idx, layers, result, layerSurfaces, transform, pl,
                 tube, layer, errors>>

\* The layer is built, directly or by the layer creator; the approach
\* descriptor is moved into it.
BuildLayer(r) ==
  /\ pc[r] = "build"
  /\ \E left \in ConstructionMaterials :
       LET built == LayerOf(r, detElementOf(r), layerSurfaces[r], pl[r],
                            transform[r], approachDescriptor[r], left)
       IN /\ layer' = [layer EXCEPT ![r] = built]
          /\ creatorCalls' =
               IF built.via = "layerCreator"
               THEN [creatorCalls EXCEPT ![r] =
                       Append(@, [node |-> idx[r],
                                  surfaces |-> built.surfaceArray,
                                  protoLayer |-> built.protoLayer,
                                  transform |-> built.transform,
                                  approachDescriptor |-> built.approachDescriptor])]
               ELSE creatorCalls
  /\ approachDescriptor' = [approachDescriptor EXCEPT ![r] = nullptr]
  /\ pc' = [pc EXCEPT ![r] = "material"]
  /\ UNCHANGED <<m_cfg, idx, layers, result, layerSurfaces, transform, pl,
                 tube, errors>>

\* SetMaterial with the assignment inside the non-vacuum branch
SetMaterialNonVacuumOnly(r) ==
  /\ pc[r] = "material"
  /\ layer' = IF SurfMaterial(r, detElementOf(r), pl[r]) # nullptr
              THEN [layer EXCEPT ![r].material =
                      SurfMaterial(r, detElementOf(r), pl[r]),
                    ![r].materialSet = @ + 1]
              ELSE layer
  /\ pc' = [pc EXCEPT ![r] = "push"]
  /\ UNCHANGED <<m_cfg, creatorCalls, idx, layers, result, layerSurfaces, transform, pl,
                 tube, approachDescriptor, errors>>

\* surfaceRepresentation().setAssociatedMaterial(surfMaterial)
SetMaterial(r) ==
  /\ pc[r] = "material"
  /\ layer' = [layer EXCEPT ![r].material =
                 SurfMaterial(r, detElementOf(r), pl[r]),
               ![r].materialSet = @ + 1]
  /\ pc' = [pc EXCEPT ![r] = "push"]
  /\ UNCHANGED <<m_cfg, creatorCalls, idx, layers, result, layerSurfaces, transform, pl,
                 tube, approachDescriptor, errors>>

\* PushBack inserting at the front of the LayerVector
PushFront(r) ==
  /\ pc[r] = "push"
  /\ layers' = [layers EXCEPT ![r] = <<layer[r]>> \o @]
  /\ idx' = [idx EXCEPT ![r] = @ + 1]
  /\ pc' = [pc EXCEPT ![r] = IF idx[r] < Len(nodesOf(r)) THEN "node" ELSE "return"]
  /\ layerSurfaces' = [layerSurfaces EXCEPT ![r] = <<>>]
  /\ transform' = [transform EXCEPT ![r] = none]
  /\ pl' = [pl EXCEPT ![r] = none]
  /\ tube' = [tube EXCEPT ![r] = none]
  /\ layer' = [layer EXCEPT ![r] = nullptr]
  /\ UNCHANGED <<m_cfg, creatorCalls, result, approachDescriptor, errors>>

\* layers.push_back(layer); the locals of the body go out of scope and the
\* range-for moves on.
PushBack(r) ==
  /\ pc[r] = "push"
  /\ layers' = [layers EXCEPT ![r] = Append(@, layer[r])]
  /\ idx' = [idx EXCEPT ![r] = @ + 1]
  /\ pc' = [pc EXCEPT ![r] = IF idx[r] < Len(nodesOf(r)) THEN "node" ELSE "return"]
  /\ layerSurfaces' = [layerSurfaces EXCEPT ![r] = <<>>]
  /\ transform' = [transform EXCEPT ![r] = none]
  /\ pl' = [pl EXCEPT ![r] = none]
  /\ tube' = [tube EXCEPT ![r] = none]
  /\ layer' = [layer EXCEPT ![r] = nullptr]
  /\ UNCHANGED <<m_cfg, creatorCalls, result, approachDescriptor, errors>>

\* return layers
Return(r) ==
  /\ pc[r] = "return"
  /\ result' = [result EXCEPT ![r] = layers[r]]
  /\ layers' = [layers EXCEPT ![r] = <<>>]
  /\ pc' = [pc EXCEPT ![r] = "returned"]
  /\ UNCHANGED <<m_cfg, creatorCalls, idx, locals, errors>>

Next ==
  /\ Alive
  /\ \E r \in Regions :
    \/ Call(r)
    \/ StartNode(r)
    \/ Envelope(r)
    \/ CastShape(r)
    \/ Throw(r)
    \/ ReadTube(r)
    \/ ReadNullTube(r)
    \/ Approach(r)
    \/ BuildLayer(r)
    \/ SetMaterial(r)
    \/ PushBack(r)
    \/ Return(r)

Spec == Init /\ [][Next]_vars

\* ------------------------------------------- the calls made side by side
\* The three methods are const and work on locals: a caller may run them
\* on threads of its own, a call entering while others are under way.
CallConcurrent(r) ==
  /\ pc[r] = "idle"
  /\ layers' = [layers EXCEPT ![r] = <<>>]
  /\ idx' = [idx EXCEPT ![r] = 1]
  /\ pc' = [pc EXCEPT ![r] = IF nodesOf(r) = <<>> THEN "return" ELSE "node"]
  /\ UNCHANGED <<m_cfg, creatorCalls, result, locals, errors>>

InitConc ==
  /\ m_cfg \in ConcConfigs
  /\ InitCalls

NextConc ==
  /\ Alive
  /\ \E r \in Regions :
    \/ CallConcurrent(r)
    \/ StartNode(r)
    \/ Envelope(r)
    \/ CastShape(r)
    \/ Throw(r)
    \/ ReadTube(r)
    \/ ReadNullTube(r)
    \/ Approach(r)
    \/ BuildLayer(r)
    \/ SetMaterial(r)
    \/ PushBack(r)
    \/ Return(r)

SpecConc == InitConc /\ [][NextConc]_vars

\* ------------------------------------------------------------------ the claims
\* the call of region r stands in the body of the loop, at a node
AtNode(r) == pc[r] \in {"node", "envelope", "tube", "approach", "build",
                        "material", "push", "thrown", "crashed"}
\* ... with the ProtoLayer of that node finished
ProtoLayerDone(r) == pc[r] \in {"approach", "build", "material", "push"}
\* ... with the shape check of that node behind it
ShapeCheckDone(r) == AtNode(r) /\ pc[r] \notin {"node", "envelope"}

NoEnvelope(node) == ~node.extension.buildEnvelope
\* the sensitive surfaces below a layer node
SurfacesBelow(node) == collectSensitive(node, 0, <<>>, node.extension.axes)

\* what can be seen on a layer of the node it was built from: the converted
\* world transform, the family of the region, the surfaces of the node
BuiltFrom(r, lay, node) ==
  /\ lay.transform = convertTransform(node.world)
  /\ lay.type = (IF r = "central" THEN "cylinder" ELSE "disc")
  /\ IF node.sens[0]
     THEN /\ lay.via = "create"
          /\ Len(lay.surfaceArray) = 1
          /\ lay.surfaceArray[1].detElement = 0
     ELSE /\ lay.via = "layerCreator"
          /\ lay.surfaceArray = SurfacesBelow(node)
  /\ (NoEnvelope(node) /\ node.shape.kind = "tube" /\ SurfacesBelow(node) = <<>>
        /\ ~node.sens[0])
       => /\ lay.protoLayer.minR = node.shape.rMin * cm
          /\ lay.protoLayer.maxR = node.shape.rMax * cm

\* C1: a region call that returns hands back exactly one layer per node of
\* the region, the i-th layer built from the i-th node; while it runs, the
\* LayerVector holds the layers of the nodes before the current one; an
\* empty node list gives an empty result and no error message.
C1_OneLayerPerNode ==
  \A r \in Regions :
    /\ pc[r] = "returned" =>
         /\ Len(result[r]) = Len(nodesOf(r))
         /\ \A i \in 1..Len(nodesOf(r)) : BuiltFrom(r, result[r][i], nodesOf(r)[i])
    /\ (AtNode(r) /\ pc[r] \notin {"thrown", "crashed"}) =>
         /\ Len(layers[r]) = idx[r] - 1
         /\ \A i \in 1..Len(layers[r]) : BuiltFrom(r, layers[r][i], nodesOf(r)[i])
    /\ (nodesOf(r) = <<>> /\ pc[r] # "idle") =>
         /\ pc[r] \in {"return", "returned"}
         /\ errors[r] = 0
         /\ pc[r] = "returned" => result[r] = <<>>

\* a region returned two layers of two different nodes
C1_Witness ==
  \E r \in Regions :
    /\ pc[r] = "returned"
    /\ Len(result[r]) = 2
    /\ nodesOf(r)[1] # nodesOf(r)[2]
    /\ result[r][1] # result[r][2]

\* a shape that is present and is no tube segment, without an envelope
WrongShape(node) == NoEnvelope(node) /\ node.shape.kind = "box"

\* C2: at a node without explicit envelope whose shape is present but is no
\* tube segment, the call is aborted by the shape check: once the check is
\* behind it the call has thrown, so no radius is read and no layer built.
C2_WrongShapeAborts ==
  \A r \in Regions :
    (ShapeCheckDone(r) /\ WrongShape(detElementOf(r))) => pc[r] = "thrown"

\* neither an envelope nor a shape
NoShapeNoEnvelope(node) == NoEnvelope(node) /\ node.shape.kind = "none"

\* C3: at the k-th node, without envelope and without shape, the call ends
\* thrown: nothing is returned, the layers of the nodes before k are not
\* delivered, and the loop never moves past k.
C3_ThrowAbortsCall ==
  \A r \in Regions :
    /\ (ShapeCheckDone(r) /\ NoShapeNoEnvelope(detElementOf(r))) =>
         pc[r] = "thrown"
    /\ pc[r] = "thrown" =>
         /\ result[r] = none
         /\ layers[r] = <<>>
         /\ NoShapeNoEnvelope(detElementOf(r))
    /\ \A k \in 1..Len(nodesOf(r)) :
         (pc[r] # "idle" /\ NoShapeNoEnvelope(nodesOf(r)[k])) =>
            /\ idx[r] <= k
            /\ pc[r] \notin {"return", "returned"}
            /\ result[r] = none

\* the call threw at the second node, after the layer of the first was built
C3_Witness ==
  \E r \in Regions :
    /\ pc[r] = "thrown"
    /\ idx[r] = 2
    /\ ~NoShapeNoEnvelope(nodesOf(r)[1])

\* C4 as stated: an explicit-envelope node gets envR == envZ == (m, m) for
\* one configured margin m.
C4_OneMargin ==
  \A r \in Regions :
    (ProtoLayerDone(r) /\ ~NoEnvelope(detElementOf(r))) =>
       /\ pl[r].envR = pl[r].envZ
       /\ pl[r].envR = <<detElementOf(r).extension.envelopeR,
                         detElementOf(r).extension.envelopeR>>

\* C4 amended: an explicit-envelope node gets envR == (envelopeR, envelopeR)
\* and envZ == (envelopeZ, envelopeZ), the two margins of its extension,
\* whether or not sensitive surfaces were collected.
C4_TwoMargins ==
  \A r \in Regions :
    (ProtoLayerDone(r) /\ ~NoEnvelope(detElementOf(r))) =>
       /\ pl[r].envR = <<detElementOf(r).extension.envelopeR,
                         detElementOf(r).extension.envelopeR>>
       /\ pl[r].envZ = <<detElementOf(r).extension.envelopeZ,
                         detElementOf(r).extension.envelopeZ>>

\* an explicit-envelope node with two different margins and no surface
C4_Witness ==
  \E r \in Regions :
    /\ ProtoLayerDone(r)
    /\ ~NoEnvelope(detElementOf(r))
    /\ detElementOf(r).extension.envelopeR # detElementOf(r).extension.envelopeZ
    /\ layerSurfaces[r] = <<>>
    /\ pl[r].envZ = <<4, 4>>

\* no envelope and a tube segment
TubeNoEnvelope(node) == NoEnvelope(node) /\ node.shape.kind = "tube"
\* the z of the centre of the tube and the projected half-length, in mm
CentreZ(node) == node.world.trans[3] * cm
ProjectedDz(node) == Abs(node.world.rot[9] * node.shape.dz * cm)

\* C5: without envelope, with a tube segment and no sensitive surface, the
\* ProtoLayer is the unit-converted shape extent (-dz, dz in the cylinder
\* pipeline, the ordered projected ends in the disc pipelines) and both
\* envelopes are (0, 0).
C5_ShapeExtentAdopted ==
  \A r \in Regions :
    (ProtoLayerDone(r) /\ TubeNoEnvelope(detElementOf(r))
       /\ layerSurfaces[r] = <<>>) =>
      LET node == detElementOf(r) IN
       /\ pl[r].minR = node.shape.rMin * cm
       /\ pl[r].maxR = node.shape.rMax * cm
       /\ r = "central" => /\ pl[r].minZ = -(node.shape.dz * cm)
                           /\ pl[r].maxZ = node.shape.dz * cm
       /\ r # "central" => /\ pl[r].minZ = CentreZ(node) - ProjectedDz(node)
                           /\ pl[r].maxZ = CentreZ(node) + ProjectedDz(node)
       /\ pl[r].envR = <<0, 0>>
       /\ pl[r].envZ = <<0, 0>>

\* a disc node whose local z axis points to -z, so that the ends are swapped
C5_Witness ==
  \E r \in Regions :
    /\ r # "central"
    /\ ProtoLayerDone(r) /\ TubeNoEnvelope(detElementOf(r))
    /\ layerSurfaces[r] = <<>>
    /\ detElementOf(r).world.rot[9] = -1
    /\ pl[r].minZ < pl[r].maxZ

\* the least and the greatest of a field over the collected surfaces
IsLeast(v, surfaces, f) ==
  /\ \E k \in 1..Len(surfaces) : surfaces[k].extent[f] = v
  /\ \A k \in 1..Len(surfaces) : surfaces[k].extent[f] >= v
IsGreatest(v, surfaces, f) ==
  /\ \E k \in 1..Len(surfaces) : surfaces[k].extent[f] = v
  /\ \A k \in 1..Len(surfaces) : surfaces[k].extent[f] <= v
\* the shape extent as the claims state it
ShapeZMin(r, node) ==
  IF r = "central" THEN -(node.shape.dz * cm) ELSE CentreZ(node) - ProjectedDz(node)
ShapeZMax(r, node) ==
  IF r = "central" THEN node.shape.dz * cm ELSE CentreZ(node) + ProjectedDz(node)

\* C6: without envelope, with a tube segment and at least one sensitive
\* surface, the ProtoLayer keeps the extent of the surfaces and each padding
\* is the absolute difference of shape extent and surface extent, so none is
\* negative.
C6_PaddingIsAbsDifference ==
  \A r \in Regions :
    (ProtoLayerDone(r) /\ TubeNoEnvelope(detElementOf(r))
       /\ layerSurfaces[r] # <<>>) =>
      LET node == detElementOf(r) IN
       /\ IsLeast(pl[r].minR, layerSurfaces[r], "minR")
       /\ IsGreatest(pl[r].maxR, layerSurfaces[r], "maxR")
       /\ IsLeast(pl[r].minZ, layerSurfaces[r], "minZ")
       /\ IsGreatest(pl[r].maxZ, layerSurfaces[r], "maxZ")
       /\ pl[r].envZ = <<Abs(ShapeZMin(r, node) - pl[r].minZ),
                         Abs(ShapeZMax(r, node) - pl[r].maxZ)>>
       /\ pl[r].envR = <<Abs(node.shape.rMin * cm - pl[r].minR),
                         Abs(node.shape.rMax * cm - pl[r].maxR)>>
       /\ \A k \in 1..2 : pl[r].envZ[k] >= 0 /\ pl[r].envR[k] >= 0

\* surfaces reaching beyond the tube on one side and ending short of it on
\* the other: the signed differences have both signs
C6_Witness ==
  \E r \in Regions :
    /\ ProtoLayerDone(r) /\ TubeNoEnvelope(detElementOf(r))
    /\ layerSurfaces[r] # <<>>
    /\ detElementOf(r).shape.rMin * cm < pl[r].minR
    /\ detElementOf(r).shape.rMax * cm > pl[r].maxR
    /\ pl[r].envR[1] > 0 /\ pl[r].envR[2] > 0

\* C7: the ProtoLayer handed to the construction of the layer has
\* minZ <= maxZ and minR <= maxR at every node of every region, and in the
\* disc pipelines the projected ends are swapped exactly when the raw zMin
\* is greater than the raw zMax.
C7_ExtentOrdered ==
  \A r \in Regions :
    /\ pc[r] = "build" =>
         /\ pl[r].minZ <= pl[r].maxZ
         /\ pl[r].minR <= pl[r].maxR
    /\ (r # "central" /\ ProtoLayerDone(r) /\ TubeNoEnvelope(detElementOf(r))
          /\ layerSurfaces[r] = <<>>) =>
         LET raw == RawZ(transform[r], detElementOf(r).shape)
         IN (raw.zMin > raw.zMax) <=>
              (pl[r].minZ = raw.zMax /\ pl[r].maxZ = raw.zMin /\ raw.zMin # raw.zMax)

\* the boundary surfaces of an approach descriptor that carry material
Marked(ad) == { k \in 1..3 : ad.surfaces[k].material # nullptr }

\* where the boundary surface called inner, central or outer lies: the
\* cylinders at minR, the mean radius and maxR; the discs below, at and above
\* the centre of the layer
LiesAt(r, sf, protoLayer, trf) ==
  IF r = "central"
  THEN sf.radius = (CASE sf.name = "inner" -> protoLayer.minR
                      [] sf.name = "outer" -> protoLayer.maxR
                      [] OTHER -> Half(protoLayer.minR + protoLayer.maxR))
  ELSE CASE sf.name = "inner" ->
              z(sf.transform.translation) <= z(trf.translation)
         [] sf.name = "outer" ->
              z(sf.transform.translation) >= z(trf.translation)
         [] OTHER -> sf.transform = trf

\* C8: when the extension asks for support material, exactly one of the
\* three boundary surfaces carries the material proxy, the one the material
\* position names (inner, central or outer, each lying where its name says),
\* and the other two carry none.
C8_OneSurfaceMarked ==
  \A r \in Regions :
    (pc[r] = "build" /\ detElementOf(r).extension.hasSupportMaterial) =>
      LET ad == approachDescriptor[r]
          node == detElementOf(r)
      IN /\ ad # nullptr
         /\ Cardinality(Marked(ad)) = 1
         /\ \A k \in 1..3 :
              (k \in Marked(ad)) <=>
                 ad.surfaces[k].name = node.extension.layerMaterialPosition
         /\ \A k \in Marked(ad) :
              ad.surfaces[k].material.binUtility[1].bins = node.extension.materialBins[1]
         /\ { ad.surfaces[k].name : k \in 1..3 } = {"inner", "central", "outer"}
         /\ \A k \in 1..3 : LiesAt(r, ad.surfaces[k], pl[r], transform[r])

\* a disc node with the material on its outer boundary
C8_Witness ==
  \E r \in Regions :
    /\ r = "negative"
    /\ pc[r] = "build" /\ detElementOf(r).extension.hasSupportMaterial
    /\ detElementOf(r).extension.layerMaterialPosition = "outer"
    /\ approachDescriptor[r] # nullptr

\* C9: the final surface material of a layer is null when the bulk
\* material is named vacuum in any casing, and otherwise a homogeneous
\* material whose thickness is the thickness of the layer: |maxR - minR| of
\* a cylinder layer, |maxZ - minZ| of a disc layer.
C9_MaterialThickness ==
  \A r \in Regions :
    pc[r] = "push" =>
      LET node == detElementOf(r)
          isVacuum == [k \in 1..Len(node.material) |-> ToLower(node.material[k])]
                        = Vacuum
      IN /\ isVacuum => layer[r].material = nullptr
         /\ ~isVacuum =>
              /\ layer[r].material # nullptr
              /\ layer[r].material.thickness =
                   (IF r = "central" THEN Abs(pl[r].maxR - pl[r].minR)
                    ELSE Abs(pl[r].maxZ - pl[r].minZ))
              /\ layer[r].via = "create" =>
                   layer[r].material.thickness = layer[r].thickness

\* the ancestors of element i in a tree, and its path from the layer node
RECURSIVE PathTo(_, _)
PathTo(t, i) == IF i = 0 THEN <<>> ELSE Append(PathTo(t, t.parent[i]), i)
\* p comes before q in depth-first pre-order: p is a proper prefix of q, or
\* at the first place they differ p has the smaller child key
Before(p, q) ==
  \/ Len(p) < Len(q) /\ \A k \in 1..Len(p) : p[k] = q[k]
  \/ \E k \in 1..Len(p) :
       /\ k <= Len(q)
       /\ \A h \in 1..(k - 1) : p[h] = q[h]
       /\ p[k] < q[k]
SensitiveBelow(node) == { i \in 1..node.n : node.sens[i] }

\* C10: collectSensitive appends exactly one surface per sensitive element
\* below the start node, in depth-first pre-order in child order, the
\* children of sensitive elements included; N sensitive elements give N
\* surfaces, and a childless node gives none.
C10_CollectorPreOrder ==
  \A r \in Regions :
    pc[r] = "envelope" =>
      LET node == detElementOf(r)
          got  == layerSurfaces[r]
      IN /\ Len(got) = Cardinality(SensitiveBelow(node))
         /\ { got[k].detElement : k \in 1..Len(got) } = SensitiveBelow(node)
         /\ \A a, b \in 1..Len(got) :
              a < b => Before(PathTo(node, got[a].detElement),
                              PathTo(node, got[b].detElement))
         /\ node.n = 0 => got = <<>>

\* a sensitive element with a sensitive child, visited before its sibling
C10_Witness ==
  \E r \in Regions :
    /\ pc[r] = "envelope"
    /\ detElementOf(r).parent = <<0, 0, 1>>
    /\ [k \in 1..Len(layerSurfaces[r]) |-> layerSurfaces[r][k].detElement]
         = <<1, 3, 2>>

\* an approach descriptor of exactly three boundary surfaces
ThreeBoundaries(ad) ==
  /\ ad # nullptr
  /\ DOMAIN ad.surfaces = 1..3
  /\ Cardinality({ ad.surfaces[k] : k \in 1..3 }) = 3

\* C11: the approach descriptor handed to the construction of the layer,
\* direct or delegated, is non-null with exactly three boundary surfaces if
\* and only if the extension of the node asks for support material, and is
\* null otherwise.
C11_ApproachIffSupportMaterial ==
  \A r \in Regions :
    /\ pc[r] = "build" =>
         IF detElementOf(r).extension.hasSupportMaterial
         THEN ThreeBoundaries(approachDescriptor[r])
         ELSE approachDescriptor[r] = nullptr
    /\ pc[r] \in {"material", "push"} =>
         IF detElementOf(r).extension.hasSupportMaterial
         THEN ThreeBoundaries(layer[r].approachDescriptor)
         ELSE layer[r].approachDescriptor = nullptr

\* a delegated cylinder layer was handed three boundary surfaces
C11_Witness ==
  \E r \in Regions :
    /\ r = "central" /\ pc[r] = "material"
    /\ layer[r].via = "layerCreator"
    /\ detElementOf(r).extension.hasSupportMaterial
    /\ ThreeBoundaries(layer[r].approachDescriptor)

\* the surface of element i of a node is as the extension lookup dictates
SurfaceFollowsExtension(node, sf) ==
  /\ sf # nullptr
  /\ node.ext[sf.detElement] =>
       /\ sf.material = ExtensionOf(sf.detElement).material
       /\ sf.digiModule = ExtensionOf(sf.detElement).digitizationModule
  /\ ~node.ext[sf.detElement] =>
       /\ sf.material = nullptr
       /\ sf.digiModule = nullptr

\* C12: createSensitiveSurface does not fail on the extension: a sensitive
\* element whose extension lookup fails still gets its surface, with null
\* material and null digitization module, and the call goes on; an element
\* with an extension gets a surface with exactly the material and the
\* digitization module of the extension.
C12_SurfaceWithoutExtension ==
  \A r \in Regions :
    /\ (AtNode(r) /\ pc[r] \notin {"node", "thrown", "crashed"}) =>
         /\ { layerSurfaces[r][k].detElement : k \in 1..Len(layerSurfaces[r]) }
              = SensitiveBelow(detElementOf(r))
         /\ \A k \in 1..Len(layerSurfaces[r]) :
              SurfaceFollowsExtension(detElementOf(r), layerSurfaces[r][k])
    /\ pc[r] \in {"material", "push"} =>
         \A k \in 1..Len(layer[r].surfaceArray) :
           SurfaceFollowsExtension(detElementOf(r), layer[r].surfaceArray[k])
    /\ pc[r] = "returned" =>
         \A i \in 1..Len(result[r]) : \A k \in 1..Len(result[r][i].surfaceArray) :
           SurfaceFollowsExtension(nodesOf(r)[i], result[r][i].surfaceArray[k])

\* a call returned a layer holding a surface made without extension next to
\* one made with its extension
C12_Witness ==
  \E r \in Regions :
    /\ pc[r] = "returned" /\ Len(result[r]) = 1
    /\ \E k \in 1..Len(result[r][1].surfaceArray) :
         /\ ~nodesOf(r)[1].ext[result[r][1].surfaceArray[k].detElement]
         /\ result[r][1].surfaceArray[k].material = nullptr
    /\ \E k \in 1..Len(result[r][1].surfaceArray) :
         /\ nodesOf(r)[1].ext[result[r][1].surfaceArray[k].detElement]
         /\ result[r][1].surfaceArray[k].digiModule # nullptr

\* the material the node asks for: none for vacuum, in any letter case
MaterialAsked(lay, node) ==
  /\ lay.materialSet = 1
  /\ lay.material \notin ConstructionMaterials \ {nullptr}
  /\ lay.material = nullptr <=> iequals(node.material, Vacuum)
  /\ lay.material # nullptr => lay.material.material = node.material

\* the counts of the material assignments, in every state
C14_SetOnceState ==
  \A r \in Regions :
    /\ pc[r] = "material" => (layer[r] # nullptr /\ layer[r].materialSet = 0)
    /\ pc[r] = "push" => MaterialAsked(layer[r], detElementOf(r))
    /\ (AtNode(r) /\ pc[r] \notin {"thrown", "crashed"}) =>
         \A i \in 1..Len(layers[r]) : MaterialAsked(layers[r][i], nodesOf(r)[i])
    /\ pc[r] = "returned" =>
         \A i \in 1..Len(result[r]) : MaterialAsked(result[r][i], nodesOf(r)[i])

\* a step that changes a built layer is the material assignment and changes
\* nothing else of it; a step that appends appends the layer as it stands
C14_SetOnceStep ==
  \A r \in Regions :
    /\ (layer[r] # nullptr /\ layer'[r] # nullptr /\ layer'[r] # layer[r]) =>
         /\ pc[r] = "material" /\ pc'[r] = "push"
         /\ layer'[r] = [layer[r] EXCEPT !.material = layer'[r].material,
                                         !.materialSet = 1]
    /\ (pc[r] = "material" /\ pc'[r] # "material") =>
         /\ pc'[r] = "push"
         /\ layer'[r].materialSet = 1
    /\ Len(layers'[r]) > Len(layers[r]) =>
         /\ pc[r] = "push"
         /\ layers'[r] = Append(layers[r], layer[r])

\* C14: the material of the surface representation of a layer is assigned
\* exactly once, after the layer is built and before it is appended; it is
\* the only change made to the layer after its construction; it happens for
\* a vacuum node (null material) as for any other, and replaces whatever
\* the construction left.
C14_MaterialSetOnce == []C14_SetOnceState /\ [][C14_SetOnceStep]_vars

\* a vacuum node whose construction left a material was appended with none
C14_Witness ==
  \E r \in Regions :
    /\ pc[r] = "returned" /\ Len(result[r]) = 1
    /\ iequals(nodesOf(r)[1].material, Vacuum)
    /\ result[r][1].material = nullptr
    /\ result[r][1].materialSet = 1

\* the boundary surface an approach descriptor holds under a name
Boundary(ad, which) ==
  ad.surfaces[CHOOSE k \in 1..3 : ad.surfaces[k].name = which]

\* the three boundary discs: inner and outer half the total thickness below
\* and above the centre of the layer along its normal, inner the lower in z
DiscsPlaced(ad, protoLayer, trf) ==
  LET inner   == Boundary(ad, "inner")
      outer   == Boundary(ad, "outer")
      central == Boundary(ad, "central")
      total   == Abs(protoLayer.minZ - protoLayer.maxZ)
                   + protoLayer.envZ[1] + protoLayer.envZ[2]
      normal  == trf.rotation[3]
      span    == Minus(outer.transform.translation, inner.transform.translation)
  IN /\ Plus(inner.transform.translation, outer.transform.translation)
          = Scale(trf.translation, 2)
     /\ span \in {Scale(normal, total), Scale(normal, -total)}
     /\ z(inner.transform.translation) <= z(outer.transform.translation)
     /\ inner.transform.rotation = trf.rotation
     /\ outer.transform.rotation = trf.rotation
     /\ central.transform = trf
     /\ \A sf \in {inner, outer, central} :
          /\ sf.type = "disc"
          /\ sf.rMin = protoLayer.minR
          /\ sf.rMax = protoLayer.maxR

\* the three boundary cylinders: the radii, and one half-length for all
CylindersPlaced(ad, protoLayer, trf) ==
  LET inner   == Boundary(ad, "inner")
      outer   == Boundary(ad, "outer")
      central == Boundary(ad, "central")
  IN /\ inner.radius = protoLayer.minR
     /\ outer.radius = protoLayer.maxR
     /\ 2 * central.radius = protoLayer.minR + protoLayer.maxR
     /\ inner.halfZ = central.halfZ
     /\ outer.halfZ = central.halfZ
     /\ \A sf \in {inner, outer, central} :
          /\ sf.type = "cylinder"
          /\ sf.transform = trf

\* C15: the boundary discs of a disc layer lie at the translation of the
\* layer less and plus half the total thickness (|minZ - maxZ| plus both
\* longitudinal envelopes) along the local normal, the inner one at the
\* lower z, the central one at the transform of the layer, all three over
\* the radii minR..maxR; the boundary cylinders of a cylinder layer have
\* the radii minR, (minR + maxR) / 2 and maxR and one half-length.
C15_BoundaryPositions ==
  \A r \in Regions :
    (pc[r] = "build" /\ approachDescriptor[r] # nullptr) =>
      IF r = "central"
      THEN CylindersPlaced(approachDescriptor[r], pl[r], transform[r])
      ELSE DiscsPlaced(approachDescriptor[r], pl[r], transform[r])

\* boundary discs of a layer with an envelope whose normal points down the
\* z axis, so that the two positions are exchanged
C15_Witness ==
  \E r \in Regions :
    /\ r # "central" /\ pc[r] = "build" /\ approachDescriptor[r] # nullptr
    /\ pl[r].envZ[1] > 0
    /\ z(transform[r].rotation[3]) < 0
    /\ z(Boundary(approachDescriptor[r], "inner").transform.translation)
         < z(transform[r].translation)

\* entry (i, j) of the rotation of a Transform3D, rows and columns from 0
Entry(trf, i, j) == trf.rotation[j + 1][i + 1]

\* the transform is the source transform: rotation entry by entry from the
\* row-major array, translation times the length unit
Converted(trf, tGeoTrans) ==
  /\ \A i \in 0..2 : \A j \in 0..2 :
       Entry(trf, i, j) = tGeoTrans.rot[3 * i + j + 1]
  /\ \A i \in 0..2 : trf.translation[i + 1] = tGeoTrans.trans[i + 1] * cm

\* C16: convertTransform gives the rotation whose entry (i, j) is element
\* 3 i + j of the row-major source rotation, neither transposed nor scaled,
\* and the translation whose component i is the source component times the
\* length unit; the same source gives the same transform in every call.
C16_ConvertTransform ==
  /\ \A r \in Regions :
       /\ transform[r] # none => Converted(transform[r], detElementOf(r).world)
       /\ pc[r] = "returned" =>
            \A i \in 1..Len(result[r]) :
              Converted(result[r][i].transform, nodesOf(r)[i].world)
  /\ \A r1 \in Regions : \A r2 \in Regions :
       (pc[r1] = "returned" /\ pc[r2] = "returned") =>
         \A i \in 1..Len(result[r1]) : \A k \in 1..Len(result[r2]) :
           nodesOf(r1)[i].world = nodesOf(r2)[k].world =>
             result[r1][i].transform = result[r2][k].transform

\* a quarter turn (a rotation that differs from its transpose) and a
\* translation off the axis were converted for a layer that was returned
C16_Witness ==
  \E r \in Regions :
    /\ pc[r] = "returned" /\ Len(result[r]) > 0
    /\ Converted(result[r][1].transform, nodesOf(r)[1].world)
    /\ Entry(result[r][1].transform, 0, 1) # Entry(result[r][1].transform, 1, 0)
    /\ result[r][1].transform.translation[1] # 0

\* the names of the boundary surfaces in the order the descriptor holds them
NamesIn(ad) == [k \in 1..3 |-> ad.surfaces[k].name]

\* C17: on the same node list the negative and the positive disc pipeline
\* return equal layer sequences, and the three boundary surfaces of an
\* approach descriptor are stored, in every pipeline, in the order inner,
\* central, outer.
C17_SameStepsSameOrder ==
  /\ (/\ pc["negative"] = "returned" /\ pc["positive"] = "returned"
      /\ nodesOf("negative") = nodesOf("positive"))
       => result["negative"] = result["positive"]
  /\ \A r \in Regions :
       /\ (pc[r] = "build" /\ approachDescriptor[r] # nullptr) =>
            NamesIn(approachDescriptor[r]) = <<"inner", "central", "outer">>
       /\ (pc[r] \in {"material", "push"} /\ layer[r].approachDescriptor # nullptr) =>
            NamesIn(layer[r].approachDescriptor) = <<"inner", "central", "outer">>

\* the longitudinal axis of the material binning of a boundary cylinder
BinZ(sf) == sf.material.binUtility[2]

\* C18: in the cylinder pipeline, for a ProtoLayer with minZ <= maxZ, the
\* half-length given to the cylinder bounds and to the three boundary
\* cylinders is not negative and equals (maxZ - minZ) / 2, and the
\* longitudinal axis of the material binning runs from a lower limit to an
\* upper limit that is not below it.
C18_HalfLengthNotNegative ==
  LET r == "central"
  IN /\ (pc[r] = "build" /\ pl[r].minZ <= pl[r].maxZ
           /\ approachDescriptor[r] # nullptr) =>
          \A k \in 1..3 :
            LET sf == approachDescriptor[r].surfaces[k]
            IN /\ sf.halfZ >= 0
               /\ 2 * sf.halfZ = pl[r].maxZ - pl[r].minZ
               /\ sf.material # nullptr => BinZ(sf).min <= BinZ(sf).max
     /\ (pc[r] \in {"material", "push"} /\ pl[r].minZ <= pl[r].maxZ
           /\ layer[r].via = "create") =>
          /\ layer[r].bounds.halfZ >= 0
          /\ 2 * layer[r].bounds.halfZ = pl[r].maxZ - pl[r].minZ

\* the nodes of the call of region r whose layer has been built
BuiltNodes(r) ==
  { i \in 1..Len(nodesOf(r)) :
      \/ i < idx[r]
      \/ i = idx[r] /\ pc[r] \in {"material", "push"} }

\* the calls made on the layer creator for node i
CallsFor(r, i) ==
  { k \in 1..Len(creatorCalls[r]) : creatorCalls[r][k].node = i }

\* C19: a node takes exactly one of the two construction paths.  A
\* sensitive node is built directly, around one surface, its own, however
\* many surfaces were collected below it, and the layer creator is not
\* called; for any other node the layer creator is called exactly once,
\* with the whole list of collected surfaces in the order of collection,
\* the ProtoLayer, the transform and the approach descriptor.
C19_OnePathPerNode ==
  \A r \in Regions :
    /\ \A i \in 1..Len(nodesOf(r)) :
         Cardinality(CallsFor(r, i)) =
           (IF i \in BuiltNodes(r) /\ ~nodesOf(r)[i].sens[0] THEN 1 ELSE 0)
    /\ \A k \in 1..Len(creatorCalls[r]) :
         LET call == creatorCalls[r][k]
         IN /\ call.surfaces = SurfacesBelow(nodesOf(r)[call.node])
            /\ call.transform = convertTransform(nodesOf(r)[call.node].world)
    /\ pc[r] \in {"material", "push"} =>
         IF detElementOf(r).sens[0]
         THEN /\ layer[r].via = "create"
              /\ Len(layer[r].surfaceArray) = 1
              /\ layer[r].surfaceArray[1].detElement = 0
              /\ layer[r].surfaceArray[1].isDisc = (r # "central")
              /\ layer[r].transform = transform[r]
         ELSE /\ layer[r].via = "layerCreator"
              /\ creatorCalls[r] # <<>>
              /\ creatorCalls[r][Len(creatorCalls[r])] =
                   [node |-> idx[r],
                    surfaces |-> layerSurfaces[r],
                    protoLayer |-> pl[r],
                    transform |-> transform[r],
                    approachDescriptor |-> layer[r].approachDescriptor]

\* a sensitive node above two collected surfaces was built around one
C19_Witness ==
  \E r \in Regions :
    /\ pc[r] = "material"
    /\ detElementOf(r).sens[0]
    /\ Len(layerSurfaces[r]) >= 2
    /\ Len(layer[r].surfaceArray) = 1
    /\ creatorCalls[r] = <<>>

\* the nodes before the current one whose shape made the cast fail
FailedCasts(r) ==
  { i \in 1..Len(nodesOf(r)) :
      /\ i < idx[r]
      /\ NoEnvelope(nodesOf(r)[i])
      /\ nodesOf(r)[i].shape.kind = "box" }

\* C20: for a node with an explicit envelope the shape is not looked at: no
\* cast, no error message, no exception, whatever the shape is (a tube,
\* another shape, none), and the minimum and maximum of the ProtoLayer stay
\* as they were derived from the collected surfaces.
C20_EnvelopeIgnoresShape ==
  \A r \in Regions :
    (AtNode(r) /\ detElementOf(r).extension.buildEnvelope) =>
      /\ pc[r] \notin {"tube", "thrown", "crashed"}
      /\ tube[r] = none
      /\ errors[r] = Cardinality(FailedCasts(r))
      /\ ProtoLayerDone(r) =>
           LET derived == ProtoLayer(SurfacesBelow(detElementOf(r)))
           IN /\ pl[r].minR = derived.minR
              /\ pl[r].maxR = derived.maxR
              /\ pl[r].minZ = derived.minZ
              /\ pl[r].maxZ = derived.maxZ

\* the layer of an envelope node with a shape that is no tube was built over
\* the extent of its surfaces, which is not the extent of any tube read
C20_Witness ==
  \E r \in Regions :
    /\ pc[r] = "push"
    /\ detElementOf(r).extension.buildEnvelope
    /\ detElementOf(r).shape.kind = "box"
    /\ layerSurfaces[r] # <<>>
    /\ pl[r].minR = SeqMin([k \in 1..Len(layerSurfaces[r]) |->
                              layerSurfaces[r][k].extent.minR])
    /\ errors[r] = 0

\* an envelope node without any shape got its layer
C20_WitnessOtherShapes ==
  \E r \in Regions :
    /\ pc[r] = "push"
    /\ detElementOf(r).extension.buildEnvelope
    /\ detElementOf(r).shape.kind = "none"

\* what the body of the loop makes of one node when the call runs alone:
\* the ProtoLayers it can arrive at (none when it throws, one for each pair
\* of numbers a read through the null pointer can give)
NodeProtoLayers(r, node) ==
  LET surfaces == SurfacesBelow(node)
      trf      == convertTransform(node.world)
      check    == ShapeCheck(node.extension, node.shape)
      tubes    == IF dynamic_cast(node.shape) # nullptr THEN {node.shape}
                  ELSE GarbageTubes
  IN CASE check = "envelope" -> {EnvelopeOf(ProtoLayer(surfaces), node.extension)}
       [] check = "shape" ->
            { ShapeProtoLayer(ProtoLayer(surfaces), surfaces,
                              ShapeExtent(r, trf, t)) : t \in tubes }
       [] OTHER -> {}

\* ... and the layers it can append for the node
NodeLayers(r, node) ==
  LET surfaces == SurfacesBelow(node)
      trf      == convertTransform(node.world)
  IN { [LayerOf(r, node, surfaces, p, trf,
                ApproachDescriptorOf(r, node.extension, p, trf), nullptr)
          EXCEPT !.material = SurfMaterial(r, node, p), !.materialSet = 1] :
       p \in NodeProtoLayers(r, node) }

\* a layer sequence the call of region r can return when it runs alone
ReturnedAlone(r, res) ==
  /\ Len(res) = Len(nodesOf(r))
  /\ \A i \in 1..Len(res) : res[i] \in NodeLayers(r, nodesOf(r)[i])

\* everything the call of region r holds
Own(r) == <<pc[r], idx[r], layers[r], result[r], layerSurfaces[r],
            transform[r], pl[r], tube[r], approachDescriptor[r], layer[r],
            errors[r], creatorCalls[r]>>

\* a step of one call leaves the configuration and all that the other
\* calls hold as they are
C13_Step ==
  /\ m_cfg' = m_cfg
  /\ \A r \in Regions : pc'[r] # pc[r] =>
       \A q \in Regions \ {r} : Own(q)' = Own(q)

\* what the calls have made so far is what they make alone
C13_State ==
  \A r \in Regions :
    /\ pc[r] = "returned" => ReturnedAlone(r, result[r])
    /\ pc[r] \in {"node", "return"} =>
         \A i \in 1..Len(layers[r]) :
           layers[r][i] \in NodeLayers(r, nodesOf(r)[i])
    /\ pc[r] = "push" => layer[r] \in NodeLayers(r, detElementOf(r))

\* C13: the three region calls may run side by side on the same node tree
\* and configuration, which none of them writes: under every interleaving a
\* call writes only its own LayerVector and the objects it made itself, and
\* a call that returns returns a layer sequence it can return when it runs
\* alone.
C13_CallsDoNotInterfere == []C13_State /\ [][C13_Step]_vars

\* the three calls are under way at once, at different places of the loop
\* body, one of them with a layer of its first node in its LayerVector
C13_Witness ==
  /\ pc["negative"] = "push" /\ idx["negative"] = 2
  /\ Len(layers["negative"]) = 1
  /\ pc["central"] = "approach"
  /\ pc["positive"] = "returned" /\ Len(result["positive"]) = 2

====
